---- MODULE Spec2Model ----
(***************************************************************************)
(* Guest transaction memory layout and account borrow engine.              *)
(*                                                                         *)
(*   transaction-context/src/transaction_accounts.rs                       *)
(*       TransactionAccounts, BorrowCounter, AccountRef, AccountRefMut     *)
(*   program-runtime/src/guest_instruction.rs      create_ix_array         *)
(*   program-runtime/src/guest_transaction.rs      RuntimeGuestTransaction *)
(*                                                                         *)
(* Rust slices and vectors are sequences; element i of the source is       *)
(* element i+1 here (Get).  A guest address is a record [region, offset]   *)
(* standing for region * MM_REGION_SIZE + offset, MM_REGION_SIZE = 2^32.   *)
(***************************************************************************)
EXTENDS Integers, Sequences, FiniteSets, TLC

VARIABLES
    shared_account_metadata,  \* TransactionAccounts: Box<[SVMAccount]>
    private_account_fields,   \* TransactionAccounts: Box<[PrivateAccountFields]>
    borrow_counters,          \* TransactionAccounts: Box<[BorrowCounter]>
    touched_flags,            \* TransactionAccounts: Box<[Cell<bool>]>
    leases,                   \* outstanding AccountRef / AccountRefMut values, per account
    heap,                     \* Arc<Vec<u8>> allocations: handle -> [data, strong]
    message,                  \* the SVMMessage handed to the builder
    transaction_accounts,     \* the &[TransactionAccount] handed to the builder
    guest,                    \* the RuntimeGuestTransaction, or NotBuilt
    regions,                  \* what the last prepare_regions call produced
    mm_accounts_area,         \* solana_sbpf::ebpf::MM_ACCOUNTS_AREA
    resize_delta,             \* TransactionAccounts: Cell<i64>
    lamports_delta,           \* TransactionAccounts: Cell<i128>
    delta_calls,              \* calls that changed resize_delta or lamports_delta
    max_account_data_growth,  \* crate::MAX_ACCOUNT_DATA_GROWTH_PER_TRANSACTION
    returned_accounts,        \* what the call that consumed the store returned, or NotReturned
    ret                       \* the last operation and what it returned

vars == << shared_account_metadata, private_account_fields, borrow_counters,
           touched_flags, leases, heap, message, transaction_accounts, guest,
           regions, mm_accounts_area, resize_delta, lamports_delta, delta_calls,
           max_account_data_growth, returned_accounts, ret >>

storeVars == << shared_account_metadata, private_account_fields, borrow_counters,
                touched_flags, leases, heap >>

guestVars == << message, transaction_accounts, guest, regions, mm_accounts_area >>

deltaVars == << resize_delta, lamports_delta, delta_calls, max_account_data_growth,
               returned_accounts >>

(***************************************************************************)
(* Bounds of the model.                                                    *)
(***************************************************************************)
\* accounts of the store in Spec
NumAccounts == 2
\* leases of one kind that Spec lets be outstanding on one account
MaxLeases == 3
\* accounts of the store in SpecCap, where leases are bounded by the counter only
CapAccounts == 1

(***************************************************************************)
(* Program constants.                                                      *)
(***************************************************************************)
\* BorrowCounter.counter is a Cell<i8>
I8_MAX == 127
I8_MIN == -128

Get(s, i) == s[i + 1]
InRange(s, i) == i >= 0 /\ i < Len(s)
SetAt(s, i, v) == [s EXCEPT ![i + 1] = v]
\* no RuntimeGuestTransaction yet, and no prepare_regions call yet
NotBuilt == [built |-> FALSE]
NoRegions == [called |-> FALSE, panic |-> FALSE, regions |-> << >>]

(***************************************************************************)
(* i8 arithmetic of the borrow counter.                                    *)
(***************************************************************************)
\* Option<i8>
Some(v) == [some |-> TRUE, value |-> v]
Nothing == [some |-> FALSE, value |-> 0]

checked_add(a, b) == IF a + b > I8_MAX \/ a + b < I8_MIN THEN Nothing ELSE Some(a + b)

saturating_add(a, b) ==
    IF a + b > I8_MAX THEN I8_MAX ELSE IF a + b < I8_MIN THEN I8_MIN ELSE a + b

saturating_sub(a, b) ==
    IF a - b > I8_MAX THEN I8_MAX ELSE IF a - b < I8_MIN THEN I8_MIN ELSE a - b

(***************************************************************************)
(* BorrowCounter.  Each operator takes the cell's value and gives the      *)
(* result and the cell's new value.                                        *)
(***************************************************************************)
is_writing(c) == c < 0

is_reading(c) == c > 0

BorrowCounter_try_borrow_saturating(c) ==
    IF is_writing(c)
    THEN [res |-> "AccountBorrowFailed", counter |-> c]
    ELSE [res |-> "Ok", counter |-> saturating_add(c, 1)]

BorrowCounter_try_borrow_counting_refusals(c) ==
    IF is_writing(c)
    THEN [res |-> "AccountBorrowFailed", counter |-> saturating_sub(c, 1)]
    ELSE IF checked_add(c, 1).some
         THEN [res |-> "Ok", counter |-> checked_add(c, 1).value]
         ELSE [res |-> "AccountBorrowFailed", counter |-> c]

BorrowCounter_try_borrow(c) ==
    IF is_writing(c)
    THEN [res |-> "AccountBorrowFailed", counter |-> c]
    ELSE IF checked_add(c, 1).some
         THEN [res |-> "Ok", counter |-> checked_add(c, 1).value]
         ELSE [res |-> "AccountBorrowFailed", counter |-> c]

BorrowCounter_try_borrow_mut_over_readers(c) ==
    IF is_writing(c)
    THEN [res |-> "AccountBorrowFailed", counter |-> c]
    ELSE [res |-> "Ok", counter |-> saturating_sub(c, 1)]

BorrowCounter_try_borrow_mut_over_writer(c) ==
    IF is_reading(c)
    THEN [res |-> "AccountBorrowFailed", counter |-> c]
    ELSE [res |-> "Ok", counter |-> saturating_sub(c, 1)]

BorrowCounter_try_borrow_mut(c) ==
    IF is_writing(c) \/ is_reading(c)
    THEN [res |-> "AccountBorrowFailed", counter |-> c]
    ELSE [res |-> "Ok", counter |-> saturating_sub(c, 1)]

release_borrow_twice(c) == saturating_sub(c, 2)

release_borrow(c) == saturating_sub(c, 1)

release_borrow_mut_lost(c) == c

release_borrow_mut(c) == saturating_add(c, 1)

(***************************************************************************)
(* Loaded accounts.  A TransactionAccount is (Pubkey, AccountSharedData);  *)
(* the AccountSharedData holds its data as an Arc<Vec<u8>>, here a handle  *)
(* into heap.                                                              *)
(***************************************************************************)
LoadedAccount(k) ==
    [ key |-> 10 + k, owner |-> 20 + (k % 2), lamports |-> k,
      rent_epoch |-> 100 * k, executable |-> (k % 2 = 0), data |-> k ]

LoadedData(k) == [j \in 1 .. (k % 3) |-> 10 * k + j]

LoadedAccounts(n) == [k \in 1 .. n |-> LoadedAccount(k - 1)]

\* every loaded account's data is held once, by its AccountSharedData
LoadedHeap(n) == [h \in 0 .. n - 1 |-> [data |-> LoadedData(h), strong |-> 1]]

(***************************************************************************)
(* resize_delta is an i64 and lamports_delta an i128, both wider than the  *)
(* integers of the checker.  A value of width w is a record [hi, lo]       *)
(* standing for hi * 2^(w-2) + lo with lo small against 2^(w-2), so that   *)
(* sums are exact and the order is the order of (hi, lo): the largest      *)
(* signed value 2^(w-1) - 1 is [2, -1] and the smallest, -2^(w-1), [-2, 0].*)
(***************************************************************************)
Wide(hi, lo) == [hi |-> hi, lo |-> lo]

Small(n) == Wide(0, n)

wide_add(a, b) == Wide(a.hi + b.hi, a.lo + b.lo)

wide_sub(a, b) == Wide(a.hi - b.hi, a.lo - b.lo)

wide_less(a, b) == a.hi < b.hi \/ (a.hi = b.hi /\ a.lo < b.lo)

SIGNED_MAX == Wide(2, -1)

SIGNED_MIN == Wide(-2, 0)

representable(x) == ~wide_less(x, SIGNED_MIN) /\ ~wide_less(SIGNED_MAX, x)

clamp(x) ==
    IF wide_less(SIGNED_MAX, x) THEN SIGNED_MAX
    ELSE IF wide_less(x, SIGNED_MIN) THEN SIGNED_MIN ELSE x

\* usize as i64: values from 2^63 on wrap around to the negative half
as_i64(n) == IF wide_less(SIGNED_MAX, n) THEN wide_sub(n, Wide(4, 0)) ELSE n

i64_saturating_add(a, b) == clamp(wide_add(a, b))

i64_saturating_sub(a, b) == clamp(wide_sub(a, b))

i128_checked_add(a, b) ==
    IF representable(wide_add(a, b)) THEN Some(wide_add(a, b)) ELSE Nothing

\* The two caps are constants of the crate root, imported by the store and
\* defined outside it.  The length cap is given a value to measure by; the
\* growth cap is any of GrowthCapInputs, one below the length cap and one
\* above it, fixed for a behaviour.
MAX_ACCOUNT_DATA_LEN == Small(10 * 1024 * 1024)

MAX_ACCOUNT_DATA_GROWTH_PER_TRANSACTION == max_account_data_growth

GrowthCapInputs == { Small(5 * 1024 * 1024), Small(2 * 10 * 1024 * 1024) }

NotReturned == [returned |-> FALSE, accounts |-> << >>]

(***************************************************************************)
(* TransactionAccounts::new.  The vector is consumed: data_clone() adds a  *)
(* handle and dropping the consumed item removes one, so heap is as it was.*)
(***************************************************************************)
new_shared_account_metadata(accounts) ==
    [k \in 1 .. Len(accounts) |->
        [ key |-> accounts[k].key, owner |-> accounts[k].owner,
          lamports |-> accounts[k].lamports ]]

new_private_account_fields(accounts) ==
    [k \in 1 .. Len(accounts) |->
        [ rent_epoch |-> accounts[k].rent_epoch,
          executable |-> accounts[k].executable,
          payload |-> accounts[k].data ]]

new_borrow_counters(accounts) == [k \in 1 .. Len(accounts) |-> 0]

new_touched_flags(accounts) == [k \in 1 .. Len(accounts) |-> FALSE]

NoLeases(accounts) == [k \in 1 .. Len(accounts) |-> [ref |-> 0, refmut |-> 0]]

TransactionAccounts_new(accounts) ==
    /\ shared_account_metadata = new_shared_account_metadata(accounts)
    /\ private_account_fields = new_private_account_fields(accounts)
    /\ borrow_counters = new_borrow_counters(accounts)
    /\ touched_flags = new_touched_flags(accounts)
    /\ leases = NoLeases(accounts)
    /\ resize_delta = Small(0)
    /\ lamports_delta = Small(0)
    /\ delta_calls = 0
    /\ returned_accounts = NotReturned

len == Len(shared_account_metadata)

\* the indices a caller passes: every account and two past the end
IndexInputs == 0 .. len + 1

Returned(op, index, res) == [op |-> op, index |-> index, res |-> res]

(***************************************************************************)
(* TransactionAccounts::touch                                              *)
(***************************************************************************)
touch_flags_clamped(flags, index) ==
    IF Len(flags) = 0 THEN flags
    ELSE SetAt(flags, IF InRange(flags, index) THEN index ELSE Len(flags) - 1, TRUE)

touch_flags_toggling(flags, index) ==
    IF InRange(flags, index) THEN SetAt(flags, index, ~Get(flags, index)) ELSE flags

touch_flags(flags, index) ==
    IF InRange(flags, index) THEN SetAt(flags, index, TRUE) ELSE flags

touch(index) ==
    /\ touched_flags' = touch_flags(touched_flags, index)
    /\ ret' = Returned("touch", index,
                       IF InRange(touched_flags, index) THEN "Ok" ELSE "MissingAccount")
    /\ UNCHANGED << shared_account_metadata, private_account_fields, borrow_counters,
                    leases, heap >>
    /\ UNCHANGED guestVars
    /\ UNCHANGED deltaVars

(***************************************************************************)
(* TransactionAccounts::try_borrow_mut and try_borrow.  On Ok the caller   *)
(* holds the returned AccountRefMut / AccountRef until it drops it.        *)
(***************************************************************************)
try_borrow_mut_first_counter(index) ==
    /\ IF ~InRange(borrow_counters, index)
       THEN /\ ret' = Returned("try_borrow_mut", index, "MissingAccount")
            /\ UNCHANGED << borrow_counters, leases >>
       ELSE LET r == BorrowCounter_try_borrow_mut(Get(borrow_counters, 0)) IN
            /\ borrow_counters' = SetAt(borrow_counters, index,
                                        IF r.res = "Ok" THEN r.counter
                                        ELSE Get(borrow_counters, index))
            /\ ret' = Returned("try_borrow_mut", index, r.res)
            /\ leases' = IF r.res = "Ok"
                         THEN [leases EXCEPT ![index + 1].refmut = @ + 1]
                         ELSE leases
    /\ UNCHANGED << shared_account_metadata, private_account_fields, touched_flags, heap >>
    /\ UNCHANGED guestVars
    /\ UNCHANGED deltaVars

try_borrow_mut(index) ==
    /\ IF ~InRange(borrow_counters, index)
       THEN /\ ret' = Returned("try_borrow_mut", index, "MissingAccount")
            /\ UNCHANGED << borrow_counters, leases >>
       ELSE LET r == BorrowCounter_try_borrow_mut(Get(borrow_counters, index)) IN
            /\ borrow_counters' = SetAt(borrow_counters, index, r.counter)
            /\ ret' = Returned("try_borrow_mut", index, r.res)
            /\ leases' = IF r.res = "Ok"
                         THEN [leases EXCEPT ![index + 1].refmut = @ + 1]
                         ELSE leases
    /\ UNCHANGED << shared_account_metadata, private_account_fields, touched_flags, heap >>
    /\ UNCHANGED guestVars
    /\ UNCHANGED deltaVars

try_borrow(index) ==
    /\ IF ~InRange(borrow_counters, index)
       THEN /\ ret' = Returned("try_borrow", index, "MissingAccount")
            /\ UNCHANGED << borrow_counters, leases >>
       ELSE LET r == BorrowCounter_try_borrow(Get(borrow_counters, index)) IN
            /\ borrow_counters' = SetAt(borrow_counters, index, r.counter)
            /\ ret' = Returned("try_borrow", index, r.res)
            /\ leases' = IF r.res = "Ok"
                         THEN [leases EXCEPT ![index + 1].ref = @ + 1]
                         ELSE leases
    /\ UNCHANGED << shared_account_metadata, private_account_fields, touched_flags, heap >>
    /\ UNCHANGED guestVars
    /\ UNCHANGED deltaVars

(***************************************************************************)
(* Drop for AccountRef and for AccountRefMut: only a lease that exists can *)
(* be dropped.                                                             *)
(***************************************************************************)
drop_AccountRef(index) ==
    /\ InRange(leases, index)
    /\ Get(leases, index).ref > 0
    /\ borrow_counters' = SetAt(borrow_counters, index,
                                release_borrow(Get(borrow_counters, index)))
    /\ leases' = [leases EXCEPT ![index + 1].ref = @ - 1]
    /\ ret' = Returned("drop_AccountRef", index, "Ok")
    /\ UNCHANGED << shared_account_metadata, private_account_fields, touched_flags, heap >>
    /\ UNCHANGED guestVars
    /\ UNCHANGED deltaVars

drop_AccountRefMut(index) ==
    /\ InRange(leases, index)
    /\ Get(leases, index).refmut > 0
    /\ borrow_counters' = SetAt(borrow_counters, index,
                                release_borrow_mut(Get(borrow_counters, index)))
    /\ leases' = [leases EXCEPT ![index + 1].refmut = @ - 1]
    /\ ret' = Returned("drop_AccountRefMut", index, "Ok")
    /\ UNCHANGED << shared_account_metadata, private_account_fields, touched_flags, heap >>
    /\ UNCHANGED guestVars
    /\ UNCHANGED deltaVars

(***************************************************************************)
(* Guest addresses.  MM_REGION_SIZE is 2^32; an address is kept as         *)
(* [region, offset] = region * MM_REGION_SIZE + offset.  Every address the *)
(* model computes is far below 2^64, where saturating and plain unsigned   *)
(* arithmetic give the same sum.  The MM_* bases come from                 *)
(* solana_sbpf::ebpf; guest_transaction.rs uses MM_TX_INSTRUCTION_DATA_AREA*)
(* where guest_instruction.rs uses IX_PAYLOAD_REGION (its tests equate     *)
(* them), and the other bases are distinct regions below the accounts.     *)
(* MM_ACCOUNTS_AREA is not fixed by the repository: its test equates it    *)
(* with IX_ACCOUNTS_REGION, its use as the base of the account payloads    *)
(* needs a region of its own, so both are admitted (mm_accounts_area).     *)
(***************************************************************************)
Region(n) == [region |-> n, offset |-> 0]

Bytes(n) == [region |-> 0, offset |-> n]

u64_add(a, b) == [region |-> a.region + b.region, offset |-> a.offset + b.offset]

u64_saturating_add(a, b) == u64_add(a, b)

\* MM_REGION_SIZE * n
region_mul(n) == Region(n)

IX_ACCOUNTS_REGION == Region(7)

IX_PAYLOAD_REGION == Region(256)

MM_RETURN_DATA_AREA == Region(4)

MM_TX_AREA == Region(5)

MM_TX_INSTRUCTION_AREA == Region(6)

MM_TX_INSTRUCTION_DATA_AREA == IX_PAYLOAD_REGION

MM_ACCOUNTS_AREA == mm_accounts_area

AccountsAreaInputs == {IX_ACCOUNTS_REGION, Region(8)}

\* size_of::<GuestInstructionAccount>(): two u16, repr(C)
SIZE_OF_GuestInstructionAccount == 4

U16_MAX == 65535

GuestSliceReference(pointer, length) == [pointer |-> pointer, length |-> length]

(***************************************************************************)
(* The message (SVMMessage): its instructions, is_signer and is_writable.  *)
(***************************************************************************)
\* instructions of a message
MaxInstr == 2

AccountListInputs == {<< >>, <<1>>, <<1, 0>>, <<0, 0>>, <<0, NumAccounts, 1>>}

PayloadInputs == {[program_id_index |-> 1, data |-> << >>],
                  [program_id_index |-> 2, data |-> <<0, 9>>]}

InstructionInputs ==
    {[program_id_index |-> p.program_id_index, accounts |-> a, data |-> p.data] :
        a \in AccountListInputs, p \in PayloadInputs}

\* DummyTx of the tests (writable iff odd, signer iff even) and three others
FlagInputs == {[signers |-> {0, 2}, writables |-> {1}],
               [signers |-> {0, 1}, writables |-> {0, 1, 2}],
               [signers |-> {1}, writables |-> {0}],
               [signers |-> {}, writables |-> {}]}

MessageInputs ==
    {[ix |-> ix, signers |-> f.signers, writables |-> f.writables] :
        ix \in UNION {[1 .. n -> InstructionInputs] : n \in 0 .. MaxInstr},
        f \in FlagInputs}

num_instructions(tx) == Len(tx.ix)

is_signer(tx, index) == index \in tx.signers

is_writable(tx, index) == index \in tx.writables

\* bool as u16
as_u16(b) == IF b THEN 1 ELSE 0

(***************************************************************************)
(* create_ix_array                                                         *)
(***************************************************************************)
flags_swapped(tx, acc) == as_u16(is_writable(tx, acc)) + 2 * as_u16(is_signer(tx, acc))

\* (is_signer as u16) | ((is_writable as u16) << 1)
flags(tx, acc) == as_u16(is_signer(tx, acc)) + 2 * as_u16(is_writable(tx, acc))

GuestInstructionAccount_next(tx, acc) == [tx_acc_idx |-> acc + 1, flags |-> flags(tx, acc)]

GuestInstructionAccount(tx, acc) == [tx_acc_idx |-> acc, flags |-> flags(tx, acc)]

next_accounts_addr(accounts_addr, instr) ==
    u64_saturating_add(accounts_addr,
                       Bytes(Len(instr.accounts) * SIZE_OF_GuestInstructionAccount))

GuestInstruction_pointer_after(instr, ix_idx, accounts_addr) ==
    [ program_id_idx |-> instr.program_id_index,
      cpi_nesting_level |-> 0,
      parent_ix_idx |-> U16_MAX,
      ix_accounts |-> GuestSliceReference(next_accounts_addr(accounts_addr, instr),
                                          Len(instr.accounts)),
      ix_data |-> GuestSliceReference(
                      u64_saturating_add(IX_PAYLOAD_REGION, region_mul(ix_idx)),
                      Len(instr.data)) ]

GuestInstruction_payload_fixed(instr, ix_idx, accounts_addr) ==
    [ program_id_idx |-> instr.program_id_index,
      cpi_nesting_level |-> 0,
      parent_ix_idx |-> U16_MAX,
      ix_accounts |-> GuestSliceReference(accounts_addr, Len(instr.accounts)),
      ix_data |-> GuestSliceReference(IX_PAYLOAD_REGION, Len(instr.data)) ]

GuestInstruction(instr, ix_idx, accounts_addr) ==
    [ program_id_idx |-> instr.program_id_index,
      cpi_nesting_level |-> 0,
      parent_ix_idx |-> U16_MAX,
      ix_accounts |-> GuestSliceReference(accounts_addr, Len(instr.accounts)),
      ix_data |-> GuestSliceReference(
                      u64_saturating_add(IX_PAYLOAD_REGION, region_mul(ix_idx)),
                      Len(instr.data)) ]

\* the loop over instructions_iter().enumerate(), from instruction ix_idx on
RECURSIVE ix_loop(_, _, _)
ix_loop(tx, ix_idx, st) ==
    IF ix_idx >= Len(tx.ix) THEN st
    ELSE LET instr == Get(tx.ix, ix_idx) IN
         ix_loop(tx, ix_idx + 1,
                 [ instr_acc |-> st.instr_acc \o
                       [j \in 1 .. Len(instr.accounts) |->
                           GuestInstructionAccount(tx, instr.accounts[j])],
                   final_vec |-> Append(st.final_vec,
                                        GuestInstruction(instr, ix_idx, st.accounts_addr)),
                   accounts_addr |-> next_accounts_addr(st.accounts_addr, instr) ])

create_ix_array(tx) ==
    ix_loop(tx, 0, [ instr_acc |-> << >>, final_vec |-> << >>,
                     accounts_addr |-> IX_ACCOUNTS_REGION ])

(***************************************************************************)
(* RuntimeGuestTransaction::new.  tx_raw_metadata holds the                *)
(* GuestTransactionContext followed by one GuestTransactionAccount per     *)
(* account; a MemoryRegion is the host buffer it maps, its guest address   *)
(* and whether the guest may write it.                                     *)
(***************************************************************************)
MemoryRegion(buf, idx, length, vm_addr, writable) ==
    [ host |-> [buf |-> buf, idx |-> idx, len |-> length],
      vm_addr |-> vm_addr, writable |-> writable ]

new_readonly(buf, idx, length, vm_addr) == MemoryRegion(buf, idx, length, vm_addr, FALSE)

new_writable(buf, idx, length, vm_addr) == MemoryRegion(buf, idx, length, vm_addr, TRUE)

GuestTransactionContext_swapped(accounts, tx) ==
    [ return_data_scratchpad |->
          [pubkey |-> 0, slice |-> GuestSliceReference(MM_RETURN_DATA_AREA, 0)],
      cpi_scratchpad |->
          GuestSliceReference(
              u64_add(MM_TX_INSTRUCTION_DATA_AREA, region_mul(num_instructions(tx))), 0),
      instruction_idx |-> 0,
      instruction_num |-> Len(accounts),
      accounts_no |-> num_instructions(tx) ]

GuestTransactionContext(accounts, tx) ==
    [ return_data_scratchpad |->
          [pubkey |-> 0, slice |-> GuestSliceReference(MM_RETURN_DATA_AREA, 0)],
      cpi_scratchpad |->
          GuestSliceReference(
              u64_add(MM_TX_INSTRUCTION_DATA_AREA, region_mul(num_instructions(tx))), 0),
      instruction_idx |-> 0,
      instruction_num |-> num_instructions(tx),
      accounts_no |-> Len(accounts) ]

GuestTransactionAccount_next_region(tx_account, idx, h) ==
    [ pubkey |-> tx_account.key,
      owner |-> tx_account.owner,
      lamports |-> tx_account.lamports,
      data |-> GuestSliceReference(u64_saturating_add(MM_ACCOUNTS_AREA, region_mul(idx + 1)),
                                   Len(h[tx_account.data].data)) ]

GuestTransactionAccount(tx_account, idx, h) ==
    [ pubkey |-> tx_account.key,
      owner |-> tx_account.owner,
      lamports |-> tx_account.lamports,
      data |-> GuestSliceReference(u64_saturating_add(MM_ACCOUNTS_AREA, region_mul(idx)),
                                   Len(h[tx_account.data].data)) ]

new_payloads_writable(tx) ==
    [i \in 1 .. Len(tx.ix) |->
        new_writable("instruction_data", i - 1, Len(tx.ix[i].data),
                     u64_add(MM_TX_INSTRUCTION_DATA_AREA, region_mul(i - 1)))]

new_payloads(tx) ==
    [i \in 1 .. Len(tx.ix) |->
        new_readonly("instruction_data", i - 1, Len(tx.ix[i].data),
                     u64_add(MM_TX_INSTRUCTION_DATA_AREA, region_mul(i - 1)))]

RuntimeGuestTransaction_new(accounts, tx, h) ==
    [ built |-> TRUE,
      tx_raw_metadata |->
          [ context |-> GuestTransactionContext(accounts, tx),
            accounts |-> [k \in 1 .. Len(accounts) |->
                             GuestTransactionAccount(accounts[k], k - 1, h)] ],
      ix_metadata |-> create_ix_array(tx).final_vec,
      ix_accounts |-> create_ix_array(tx).instr_acc,
      account_data |-> [k \in 1 .. Len(accounts) |-> accounts[k].data],
      payloads |-> new_payloads(tx) ]

\* data_clone() of every account: one more handle on each allocation
data_clone_all(accounts, h) ==
    [x \in DOMAIN h |->
        [h[x] EXCEPT !.strong = @ + Cardinality({k \in 1 .. Len(accounts) :
                                                    accounts[k].data = x})]]

new ==
    /\ ~guest.built
    /\ guest' = RuntimeGuestTransaction_new(transaction_accounts, message, heap)
    /\ heap' = data_clone_all(transaction_accounts, heap)
    /\ ret' = Returned("new", 0, "Ok")
    /\ UNCHANGED << shared_account_metadata, private_account_fields, borrow_counters,
                    touched_flags, leases >>
    /\ UNCHANGED << message, transaction_accounts, regions, mm_accounts_area >>
    /\ UNCHANGED deltaVars

(***************************************************************************)
(* RuntimeGuestTransaction::new_with_feature_set                           *)
(***************************************************************************)
new_with_feature_set_result_ungated(accounts, tx, h, enable_abi_v2_programs) ==
    Some(RuntimeGuestTransaction_new(accounts, tx, h))

new_with_feature_set_result(accounts, tx, h, enable_abi_v2_programs) ==
    IF enable_abi_v2_programs THEN Some(RuntimeGuestTransaction_new(accounts, tx, h))
    ELSE Nothing

new_with_feature_set(enable_abi_v2_programs) ==
    /\ ~guest.built
    /\ LET r == new_with_feature_set_result(transaction_accounts, message, heap,
                                            enable_abi_v2_programs)
       IN  /\ guest' = IF r.some THEN r.value ELSE guest
           /\ heap' = IF r.some THEN data_clone_all(transaction_accounts, heap) ELSE heap
           /\ ret' = [op |-> "new_with_feature_set", index |-> 0,
                      res |-> IF r.some THEN "Some" ELSE "None",
                      enable_abi_v2_programs |-> enable_abi_v2_programs]
    /\ UNCHANGED << shared_account_metadata, private_account_fields, borrow_counters,
                    touched_flags, leases >>
    /\ UNCHANGED << message, transaction_accounts, regions, mm_accounts_area >>
    /\ UNCHANGED deltaVars

(***************************************************************************)
(* RuntimeGuestTransaction::set_instruction_index                          *)
(***************************************************************************)
set_instruction_index_renumbering(index) ==
    /\ guest.built
    /\ guest' = [guest EXCEPT !.tx_raw_metadata.context.instruction_idx = index,
                              !.tx_raw_metadata.context.instruction_num = index + 1]
    /\ ret' = Returned("set_instruction_index", index, "Ok")
    /\ UNCHANGED storeVars
    /\ UNCHANGED << message, transaction_accounts, regions, mm_accounts_area >>
    /\ UNCHANGED deltaVars

set_instruction_index(index) ==
    /\ guest.built
    /\ guest' = [guest EXCEPT !.tx_raw_metadata.context.instruction_idx = index]
    /\ ret' = Returned("set_instruction_index", index, "Ok")
    /\ UNCHANGED storeVars
    /\ UNCHANGED << message, transaction_accounts, regions, mm_accounts_area >>
    /\ UNCHANGED deltaVars

(***************************************************************************)
(* RuntimeGuestTransaction::prepare_regions.  Indexing past the end of     *)
(* ix_metadata and unwrap() of a failed get() panic.  The subtraction      *)
(* pointer - MM_ACCOUNTS_AREA underflows when the pointer is below the     *)
(* base: a panic with overflow checks on, and with them off a wrapped      *)
(* starting index beyond every array.                                      *)
(***************************************************************************)
instruction_idx(g) == g.tx_raw_metadata.context.instruction_idx

u64_less(a, b) == a.region < b.region \/ (a.region = b.region /\ a.offset < b.offset)

\* (pointer - MM_ACCOUNTS_AREA) / size_of::<GuestInstructionAccount>(), the
\* pointer not below the base; 2^32 / 4 = 1073741824
starting_index(instr) ==
    (instr.ix_accounts.pointer.region - MM_ACCOUNTS_AREA.region) * 1073741824
    + (instr.ix_accounts.pointer.offset - MM_ACCOUNTS_AREA.offset)
          \div SIZE_OF_GuestInstructionAccount

\* the region the loop body builds for one entry of ix_accounts
account_region(g, ix_account_metadata) ==
    LET data == Get(g.account_data, ix_account_metadata.tx_acc_idx)
        addr == u64_add(MM_ACCOUNTS_AREA, region_mul(ix_account_metadata.tx_acc_idx))
    IN  IF ix_account_metadata.flags \div 2 = 1
        THEN new_writable("account_data", data, Len(heap[data].data), addr)
        ELSE new_readonly("account_data", data, Len(heap[data].data), addr)

\* some iteration of the loop over starting_index .. starting_index + length
\* unwraps a failed get()
loop_panics(g, start, length) ==
    \E i \in start .. start + length - 1 :
        \/ ~InRange(g.ix_accounts, i)
        \/ ~InRange(g.account_data, Get(g.ix_accounts, i).tx_acc_idx)

head_regions(g) ==
    << new_readonly("tx_raw_metadata", 0, 1 + Len(g.tx_raw_metadata.accounts), MM_TX_AREA),
       new_readonly("ix_metadata", 0, Len(g.ix_metadata), MM_TX_INSTRUCTION_AREA),
       new_readonly("ix_accounts", 0, Len(g.ix_accounts), MM_TX_INSTRUCTION_DATA_AREA) >>

Panic == [called |-> TRUE, panic |-> TRUE, regions |-> << >>]

Regions(list) == [called |-> TRUE, panic |-> FALSE, regions |-> list]

\* the built regions are dropped at the end of each iteration: none is pushed
prepare_regions_result(g, overflow_checks) ==
    IF ~InRange(g.ix_metadata, instruction_idx(g)) THEN Panic
    ELSE LET instr == Get(g.ix_metadata, instruction_idx(g))
             length == instr.ix_accounts.length
         IN  IF u64_less(instr.ix_accounts.pointer, MM_ACCOUNTS_AREA)
             THEN IF overflow_checks \/ length > 0 THEN Panic
                  ELSE Regions(head_regions(g) \o g.payloads)
             ELSE IF loop_panics(g, starting_index(instr), length) THEN Panic
                  ELSE Regions(head_regions(g) \o g.payloads)

prepare_regions ==
    /\ guest.built
    /\ \E overflow_checks \in BOOLEAN :
           /\ regions' = prepare_regions_result(guest, overflow_checks)
           /\ ret' = Returned("prepare_regions", instruction_idx(guest),
                              IF regions'.panic THEN "panic" ELSE "Ok")
    /\ UNCHANGED storeVars
    /\ UNCHANGED << message, transaction_accounts, guest, mm_accounts_area >>
    /\ UNCHANGED deltaVars

(***************************************************************************)
(* TransactionAccountMutView::data_as_mut_slice, reached through an        *)
(* AccountRefMut, and the caller's write of one byte through the slice it  *)
(* returns.  Arc::make_mut gives the allocation itself when this handle is *)
(* the only one, and otherwise moves the handle to a fresh copy.           *)
(***************************************************************************)
ByteInputs == {0, 255}

fresh_handle(h) == CHOOSE x \in 0 .. Cardinality(DOMAIN h) : x \notin DOMAIN h

make_mut_in_place(h, x) == [handle |-> x, heap |-> h]

make_mut(h, x) ==
    IF h[x].strong = 1
    THEN [handle |-> x, heap |-> h]
    ELSE [ handle |-> fresh_handle(h),
           heap |-> [y \in DOMAIN h \cup {fresh_handle(h)} |->
                        IF y = fresh_handle(h) THEN [data |-> h[x].data, strong |-> 1]
                        ELSE IF y = x THEN [h[x] EXCEPT !.strong = @ - 1]
                        ELSE h[y]] ]

write_byte(data, position, byte) ==
    IF InRange(data, position) THEN SetAt(data, position, byte) ELSE data

data_as_mut_slice(index, position, byte) ==
    /\ InRange(leases, index)
    /\ Get(leases, index).refmut > 0
    /\ LET m == make_mut(heap, Get(private_account_fields, index).payload) IN
       /\ private_account_fields' =
              [private_account_fields EXCEPT ![index + 1].payload = m.handle]
       /\ heap' = [m.heap EXCEPT ![m.handle].data = write_byte(@, position, byte)]
    /\ ret' = Returned("data_as_mut_slice", index, "Ok")
    /\ UNCHANGED << shared_account_metadata, borrow_counters, touched_flags, leases >>
    /\ UNCHANGED guestVars
    /\ UNCHANGED deltaVars

\* the bytes of account index as the store and as the guest layout hold them
store_data(index) == heap[Get(private_account_fields, index).payload].data

guest_data(index) == heap[Get(guest.account_data, index)].data

(***************************************************************************)
(* TransactionAccounts::can_data_be_resized and                            *)
(* update_accounts_resize_delta.  Lengths are usize values.                *)
(***************************************************************************)
\* calls of update_accounts_resize_delta or add_lamports_delta in one behaviour
MaxDeltaCalls == 3

LenInputs == { Small(0), MAX_ACCOUNT_DATA_LEN,
               wide_add(MAX_ACCOUNT_DATA_LEN, Small(1)),
               wide_add(MAX_ACCOUNT_DATA_GROWTH_PER_TRANSACTION, Small(1)),
               SIGNED_MAX }

ReturnedLens(op, old_len, new_len, res) ==
    [op |-> op, index |-> 0, res |-> res, old_len |-> old_len, new_len |-> new_len]

length_delta(old_len, new_len) == i64_saturating_sub(as_i64(new_len), as_i64(old_len))

can_data_be_resized_result_inclusive(delta, old_len, new_len) ==
    IF ~wide_less(new_len, MAX_ACCOUNT_DATA_LEN) THEN "InvalidRealloc"
    ELSE IF wide_less(MAX_ACCOUNT_DATA_GROWTH_PER_TRANSACTION,
                      i64_saturating_add(delta, length_delta(old_len, new_len)))
         THEN "MaxAccountsDataAllocationsExceeded"
         ELSE "Ok"

can_data_be_resized_result_length_only(delta, old_len, new_len) ==
    IF wide_less(MAX_ACCOUNT_DATA_LEN, new_len) THEN "InvalidRealloc" ELSE "Ok"

can_data_be_resized_result(delta, old_len, new_len) ==
    IF wide_less(MAX_ACCOUNT_DATA_LEN, new_len) THEN "InvalidRealloc"
    ELSE IF wide_less(MAX_ACCOUNT_DATA_GROWTH_PER_TRANSACTION,
                      i64_saturating_add(delta, length_delta(old_len, new_len)))
         THEN "MaxAccountsDataAllocationsExceeded"
         ELSE "Ok"

can_data_be_resized(old_len, new_len) ==
    /\ ret' = ReturnedLens("can_data_be_resized", old_len, new_len,
                           can_data_be_resized_result(resize_delta, old_len, new_len))
    /\ UNCHANGED storeVars
    /\ UNCHANGED guestVars
    /\ UNCHANGED deltaVars

new_resize_delta_wrapping(delta, old_len, new_len) ==
    LET sum == wide_add(delta, length_delta(old_len, new_len)) IN
    IF wide_less(SIGNED_MAX, sum) THEN wide_sub(sum, Wide(4, 0))
    ELSE IF wide_less(sum, SIGNED_MIN) THEN wide_add(sum, Wide(4, 0)) ELSE sum

new_resize_delta(delta, old_len, new_len) ==
    i64_saturating_add(delta, length_delta(old_len, new_len))

update_accounts_resize_delta(old_len, new_len) ==
    /\ delta_calls < MaxDeltaCalls
    /\ resize_delta' = new_resize_delta(resize_delta, old_len, new_len)
    /\ delta_calls' = delta_calls + 1
    /\ ret' = ReturnedLens("update_accounts_resize_delta", old_len, new_len, "Ok")
    /\ UNCHANGED storeVars
    /\ UNCHANGED guestVars
    /\ UNCHANGED << lamports_delta, max_account_data_growth, returned_accounts >>

(***************************************************************************)
(* TransactionAccounts::add_lamports_delta.  checked_add(..).ok_or(..)?    *)
(* returns before the cell is set.                                         *)
(***************************************************************************)
BalanceInputs == { Small(1), Small(-1), Wide(1, 0), SIGNED_MAX, SIGNED_MIN }

ReturnedBalance(op, balance, res) ==
    [op |-> op, index |-> 0, res |-> res, balance |-> balance]

add_lamports_delta_result_saturating(delta, balance) ==
    IF i128_checked_add(delta, balance).some
    THEN [res |-> "Ok", lamports_delta |-> i128_checked_add(delta, balance).value]
    ELSE [res |-> "ArithmeticOverflow", lamports_delta |-> clamp(wide_add(delta, balance))]

add_lamports_delta_result(delta, balance) ==
    IF i128_checked_add(delta, balance).some
    THEN [res |-> "Ok", lamports_delta |-> i128_checked_add(delta, balance).value]
    ELSE [res |-> "ArithmeticOverflow", lamports_delta |-> delta]

add_lamports_delta(balance) ==
    /\ delta_calls < MaxDeltaCalls
    /\ lamports_delta' = add_lamports_delta_result(lamports_delta, balance).lamports_delta
    /\ delta_calls' = delta_calls + 1
    /\ ret' = ReturnedBalance("add_lamports_delta", balance,
                              add_lamports_delta_result(lamports_delta, balance).res)
    /\ UNCHANGED storeVars
    /\ UNCHANGED guestVars
    /\ UNCHANGED << resize_delta, max_account_data_growth, returned_accounts >>

(***************************************************************************)
(* TransactionAccounts::into_account_shared_data.  The store is consumed,  *)
(* which the borrow checker allows only with no lease outstanding, and its *)
(* payload handles are dropped with it.  The closure maps each             *)
(* (shared_fields, private_fields) pair to the path                        *)
(* AccountSharedData::shared: nothing of the pair reaches the output.      *)
(***************************************************************************)
AccountSharedData_shared == [assembled |-> FALSE]

into_account_shared_data_result(shared, private) ==
    [k \in 1 .. Len(shared) |-> AccountSharedData_shared]

drop_payloads(h, private) ==
    [x \in DOMAIN h |->
        [h[x] EXCEPT !.strong = @ - Cardinality({k \in 1 .. Len(private) :
                                                    private[k].payload = x})]]

into_account_shared_data ==
    /\ ~returned_accounts.returned
    /\ \A k \in 1 .. Len(leases) : leases[k].ref = 0 /\ leases[k].refmut = 0
    /\ returned_accounts' =
           [returned |-> TRUE,
            accounts |-> into_account_shared_data_result(shared_account_metadata,
                                                         private_account_fields)]
    /\ heap' = drop_payloads(heap, private_account_fields)
    /\ ret' = Returned("into_account_shared_data", 0, "Ok")
    /\ UNCHANGED << shared_account_metadata, private_account_fields, borrow_counters,
                    touched_flags, leases >>
    /\ UNCHANGED guestVars
    /\ UNCHANGED << resize_delta, lamports_delta, delta_calls, max_account_data_growth >>

\* take consumes the store: shared_account_metadata, touched_flags and
\* resize_delta go to the caller as OwnedTransactionAccounts, and the rest is
\* dropped, among it one payload handle per account
take ==
    /\ ~returned_accounts.returned
    /\ \A k \in 1 .. Len(leases) : leases[k].ref = 0 /\ leases[k].refmut = 0
    /\ returned_accounts' =
           [returned |-> TRUE, accounts |-> << >>,
            owned |-> << shared_account_metadata, touched_flags, resize_delta >>]
    /\ heap' = drop_payloads(heap, private_account_fields)
    /\ ret' = Returned("take", 0, "Ok")
    /\ UNCHANGED << shared_account_metadata, private_account_fields, borrow_counters,
                    touched_flags, leases >>
    /\ UNCHANGED guestVars
    /\ UNCHANGED << resize_delta, lamports_delta, delta_calls, max_account_data_growth >>

(***************************************************************************)
(* Spec: a store of NumAccounts accounts under touch, borrows and drops,   *)
(* with at most MaxLeases outstanding leases of a kind per account.        *)
(* SpecCap: a store of CapAccounts accounts under borrows and drops, the   *)
(* number of leases limited by the borrow counter alone.                   *)
(***************************************************************************)
NoGuest ==
    /\ message = << >>
    /\ transaction_accounts = << >>
    /\ guest = NotBuilt
    /\ regions = NoRegions
    /\ mm_accounts_area \in AccountsAreaInputs

InitStore(n) ==
    /\ heap = LoadedHeap(n)
    /\ TransactionAccounts_new(LoadedAccounts(n))
    /\ max_account_data_growth \in GrowthCapInputs
    /\ NoGuest
    /\ ret = Returned("new", 0, "Ok")

Init == InitStore(NumAccounts)

LeaseRoom(index) ==
    InRange(leases, index) =>
        /\ Get(leases, index).ref < MaxLeases
        /\ Get(leases, index).refmut < MaxLeases

\* once into_account_shared_data or take has consumed the store nothing can
\* be called
Next ==
    \/ /\ ~returned_accounts.returned
       /\ \E index \in IndexInputs :
              \/ touch(index)
              \/ LeaseRoom(index) /\ try_borrow(index)
              \/ LeaseRoom(index) /\ try_borrow_mut(index)
              \/ drop_AccountRef(index)
              \/ drop_AccountRefMut(index)
    \/ into_account_shared_data
    \/ take

Spec == Init /\ [][Next]_vars

InitCap == InitStore(CapAccounts)

NextCap ==
    \E index \in IndexInputs :
        \/ try_borrow(index)
        \/ try_borrow_mut(index)
        \/ drop_AccountRef(index)
        \/ drop_AccountRefMut(index)

SpecCap == InitCap /\ [][NextCap]_vars

(***************************************************************************)
(* SpecResize and SpecLamports: the store's two running totals, with       *)
(* touch beside them (of the first account only in SpecResize).            *)
(***************************************************************************)
NextResize ==
    \/ \E old_len \in LenInputs, new_len \in LenInputs :
           \/ can_data_be_resized(old_len, new_len)
           \/ update_accounts_resize_delta(old_len, new_len)
    \/ touch(0)

SpecResize == Init /\ [][NextResize]_vars

\* update_accounts_resize_delta only right after can_data_be_resized said Ok
\* to the same two lengths
NextGuardedResize ==
    \/ \E old_len \in LenInputs, new_len \in LenInputs :
           can_data_be_resized(old_len, new_len)
    \/ /\ ret.op = "can_data_be_resized"
       /\ ret.res = "Ok"
       /\ update_accounts_resize_delta(ret.old_len, ret.new_len)
    \/ touch(0)

SpecGuardedResize == Init /\ [][NextGuardedResize]_vars

NextLamports ==
    \/ \E balance \in BalanceInputs : add_lamports_delta(balance)
    \/ \E index \in IndexInputs : touch(index)

SpecLamports == Init /\ [][NextLamports]_vars

(***************************************************************************)
(* Claims about the store's leases.                                        *)
(***************************************************************************)
Accounts == 0 .. len - 1

Readers(i) == Get(leases, i).ref

Writers(i) == Get(leases, i).refmut

\* C1: on every account there is never more than one outstanding mutable
\* lease, and while a mutable lease is outstanding there is no outstanding
\* immutable lease on that account.
C1_WriterExcludesAll ==
    \A k \in Accounts :
        /\ Writers(k) <= 1
        /\ Writers(k) = 1 => Readers(k) = 0

\* a borrow was refused on an account whose mutable lease is outstanding
C1_Witness ==
    /\ ret.op \in {"try_borrow", "try_borrow_mut"}
    /\ ret.res = "AccountBorrowFailed"
    /\ Writers(ret.index) = 1

\* C2: for an in-range index i, try_borrow_mut(i) returns Ok, moving the
\* counter of i from 0 to -1, if and only if no lease of any kind is
\* outstanding on i; otherwise it returns AccountBorrowFailed.
C2_BorrowMutIffFree ==
    [][\A i \in Accounts :
          (ret'.op = "try_borrow_mut" /\ ret'.index = i) =>
              LET free == Readers(i) = 0 /\ Writers(i) = 0 IN
              /\ (ret'.res = "Ok") <=> free
              /\ free => /\ Get(borrow_counters, i) = 0
                         /\ Get(borrow_counters', i) = -1
              /\ ~free => ret'.res = "AccountBorrowFailed"]_vars

\* try_borrow_mut was refused because of readers, another succeeded
C2_Witness ==
    /\ ret.op = "try_borrow_mut"
    /\ ret.res = "AccountBorrowFailed"
    /\ Readers(ret.index) > 0
    /\ \E k \in Accounts : Writers(k) = 1 /\ Get(borrow_counters, k) = -1

\* C3: for an in-range index i, try_borrow(i) returns Ok, adding one reader
\* to i, if and only if no writer holds i and fewer than 127 immutable leases
\* on i are outstanding; with 127 held every further try_borrow(i) returns
\* AccountBorrowFailed and the 127 leases stay as they are.
C3_BorrowIffNoWriterAndRoom ==
    [][\A i \in Accounts :
          (ret'.op = "try_borrow" /\ ret'.index = i) =>
              LET room == Writers(i) = 0 /\ Readers(i) < 127 IN
              /\ (ret'.res = "Ok") <=> room
              /\ room => /\ Get(leases', i).ref = Readers(i) + 1
                         /\ Get(borrow_counters', i) = Get(borrow_counters, i) + 1
              /\ ~room => /\ ret'.res = "AccountBorrowFailed"
                          /\ leases' = leases
                          /\ borrow_counters' = borrow_counters]_vars

\* the 128th try_borrow was refused with 127 leases held
C3_Witness ==
    /\ ret.op = "try_borrow"
    /\ ret.res = "AccountBorrowFailed"
    /\ Readers(ret.index) = 127

\* C4: for an index at or past the number of accounts, touch, try_borrow and
\* try_borrow_mut return MissingAccount whatever leases are outstanding, and
\* leave every borrow counter and every touched flag unchanged.
C4_MissingAccount ==
    [][(/\ ret'.op \in {"touch", "try_borrow", "try_borrow_mut"}
        /\ ret'.index >= len) =>
           /\ ret'.res = "MissingAccount"
           /\ borrow_counters' = borrow_counters
           /\ touched_flags' = touched_flags
           /\ leases' = leases]_vars

\* touch past the end returned MissingAccount while leases were outstanding
C4_Witness ==
    /\ ret.op = "touch"
    /\ ret.index >= len
    /\ ret.res = "MissingAccount"
    /\ \E k \in Accounts : Writers(k) = 1
    /\ \E k \in Accounts : Readers(k) > 1

\* C5: once every lease on an account is dropped its borrow counter is 0
\* again, so that a new try_borrow_mut on it succeeds.
C5_ReleaseUndoesAcquire ==
    \A i \in Accounts :
        (Readers(i) = 0 /\ Writers(i) = 0) =>
            /\ Get(borrow_counters, i) = 0
            /\ BorrowCounter_try_borrow_mut(Get(borrow_counters, i)).res = "Ok"

\* the last lease of an account was just dropped
C5_Witness ==
    /\ ret.op \in {"drop_AccountRef", "drop_AccountRefMut"}
    /\ Readers(ret.index) = 0
    /\ Writers(ret.index) = 0
    /\ Get(borrow_counters, ret.index) = 0

(***************************************************************************)
(* SpecGuest: the builder on every message of MessageInputs and the loaded *)
(* accounts, then set_instruction_index and prepare_regions.               *)
(***************************************************************************)
InitGuest ==
    /\ message \in MessageInputs
    /\ transaction_accounts = LoadedAccounts(NumAccounts)
    /\ heap = LoadedHeap(NumAccounts)
    /\ mm_accounts_area \in AccountsAreaInputs
    /\ guest = NotBuilt
    /\ regions = NoRegions
    /\ TransactionAccounts_new(<< >>)
    /\ max_account_data_growth \in GrowthCapInputs
    /\ ret = Returned("load", 0, "Ok")

NextGuest ==
    \/ new
    \/ \E enable_abi_v2_programs \in BOOLEAN : new_with_feature_set(enable_abi_v2_programs)
    \/ \E index \in 0 .. num_instructions(message) : set_instruction_index(index)
    \/ prepare_regions

SpecGuest == InitGuest /\ [][NextGuest]_vars

(***************************************************************************)
(* SpecShare: a RuntimeGuestTransaction and a TransactionAccounts store    *)
(* built from the same loaded accounts (the builder borrows the accounts,  *)
(* the store then consumes them), under leases and writes through them.    *)
(***************************************************************************)
ShareMessage ==
    [ ix |-> << [program_id_index |-> 1, accounts |-> <<1, 0>>, data |-> <<0, 9>>] >>,
      signers |-> {0}, writables |-> {1} ]

InitShare ==
    /\ message = ShareMessage
    /\ transaction_accounts = LoadedAccounts(NumAccounts)
    /\ mm_accounts_area \in AccountsAreaInputs
    /\ guest = RuntimeGuestTransaction_new(transaction_accounts, message,
                                           LoadedHeap(NumAccounts))
    /\ heap = data_clone_all(transaction_accounts, LoadedHeap(NumAccounts))
    /\ regions = NoRegions
    /\ TransactionAccounts_new(transaction_accounts)
    /\ max_account_data_growth \in GrowthCapInputs
    /\ ret = Returned("new", 0, "Ok")

NextShare ==
    \E index \in Accounts :
        \/ LeaseRoom(index) /\ try_borrow(index)
        \/ LeaseRoom(index) /\ try_borrow_mut(index)
        \/ drop_AccountRef(index)
        \/ drop_AccountRefMut(index)
        \/ \E position \in 0 .. 1, byte \in ByteInputs :
               data_as_mut_slice(index, position, byte)

SpecShare == InitShare /\ [][NextShare]_vars

\* SpecWrite: the same store and guest layout under mutable leases only
NextWrite ==
    \E index \in Accounts :
        \/ try_borrow_mut(index)
        \/ drop_AccountRefMut(index)
        \/ \E position \in 0 .. 1, byte \in ByteInputs :
               data_as_mut_slice(index, position, byte)

SpecWrite == InitShare /\ [][NextWrite]_vars

(***************************************************************************)
(* Claims about the guest layout.                                          *)
(***************************************************************************)
\* C6: the store and the guest layout built from the same loaded accounts
\* hold the same payload bytes for every account, also after bytes were
\* written to an account through a mutable lease.
C6_SharedPayloadBytes ==
    guest.built => \A k \in Accounts : store_data(k) = guest_data(k)

Returned_regions == ret.op = "prepare_regions" /\ ret.res = "Ok"

current_instruction == Get(message.ix, ret.index)

regions_at(addr) ==
    {r \in 1 .. Len(regions.regions) : regions.regions[r].vm_addr = addr}

\* C7: prepare_regions on a valid instruction_idx returns, for each account
\* k of the current instruction, exactly one region at ACCOUNTS_BASE + k * S
\* bound to the payload of k, writable iff k is writable in the instruction.
C7_AccountRegions ==
    Returned_regions =>
        \A j \in 1 .. Len(current_instruction.accounts) :
            LET k == current_instruction.accounts[j] IN
            InRange(guest.account_data, k) =>
                /\ Cardinality(regions_at(u64_add(MM_ACCOUNTS_AREA, region_mul(k)))) = 1
                /\ \A r \in regions_at(u64_add(MM_ACCOUNTS_AREA, region_mul(k))) :
                       /\ regions.regions[r].host.buf = "account_data"
                       /\ regions.regions[r].host.idx = Get(guest.account_data, k)
                       /\ regions.regions[r].writable <=> is_writable(message, k)

\* C8: the list prepare_regions returns begins with three read-only regions:
\* the context buffer at TX_CTX_BASE, the instruction descriptors at
\* IX_META_BASE and the account refs at the base every ix_accounts.pointer
\* is computed from; account regions follow and the payload regions are last.
C8_RegionOrder ==
    Returned_regions =>
        LET rs == regions.regions
            n == Len(guest.payloads)
        IN  /\ Len(rs) >= 3 + n
            /\ rs[1].host.buf = "tx_raw_metadata" /\ rs[1].vm_addr = MM_TX_AREA
            /\ rs[2].host.buf = "ix_metadata" /\ rs[2].vm_addr = MM_TX_INSTRUCTION_AREA
            /\ rs[3].host.buf = "ix_accounts" /\ rs[3].vm_addr = IX_ACCOUNTS_REGION
            /\ \A r \in 1 .. 3 : ~rs[r].writable
            /\ \A r \in 4 .. Len(rs) - n : rs[r].host.buf = "account_data"
            /\ SubSeq(rs, Len(rs) - n + 1, Len(rs)) = guest.payloads

RECURSIVE accounts_before(_, _)
accounts_before(tx, i) ==
    IF i = 0 THEN 0 ELSE accounts_before(tx, i - 1) + Len(tx.ix[i].accounts)

\* C9: for every instruction i, descriptor[i].ix_accounts.length is the
\* number of accounts of i and descriptor[i].ix_accounts.pointer is the
\* account-refs base plus 4 bytes for every account of the instructions
\* before i.
C9_IxAccountsSlices ==
    guest.built =>
        /\ Len(guest.ix_metadata) = Len(message.ix)
        /\ \A i \in 0 .. Len(message.ix) - 1 :
               /\ Get(guest.ix_metadata, i).ix_accounts.length
                      = Len(Get(message.ix, i).accounts)
               /\ Get(guest.ix_metadata, i).ix_accounts.pointer
                      = u64_add(IX_ACCOUNTS_REGION, Bytes(4 * accounts_before(message, i)))

\* a second instruction with accounts of its own, after three of the first
C9_Witness ==
    /\ guest.built
    /\ Len(message.ix) = 2
    /\ Get(guest.ix_metadata, 1).ix_accounts.length = 2
    /\ Get(guest.ix_metadata, 1).ix_accounts.pointer = u64_add(Region(7), Bytes(12))

RECURSIVE concat_accounts(_, _)
concat_accounts(tx, n) ==
    IF n = 0 THEN << >> ELSE concat_accounts(tx, n - 1) \o tx.ix[n].accounts

\* C10: ix_accounts is the concatenation, in instruction order, of the
\* instructions' account lists; entry for account a has tx_acc_idx = a, flag
\* bit 0 = is_signer(a), flag bit 1 = is_writable(a) and no other flag bit.
C10_AccountRefs ==
    guest.built =>
        LET all == concat_accounts(message, Len(message.ix)) IN
        /\ Len(guest.ix_accounts) = Len(all)
        /\ \A j \in 1 .. Len(all) :
               /\ guest.ix_accounts[j].tx_acc_idx = all[j]
               /\ (guest.ix_accounts[j].flags % 2 = 1) <=> is_signer(message, all[j])
               /\ ((guest.ix_accounts[j].flags \div 2) % 2 = 1)
                      <=> is_writable(message, all[j])
               /\ guest.ix_accounts[j].flags \div 4 = 0

\* refs of two instructions, one a signer only and one writable only
C10_Witness ==
    /\ guest.built
    /\ Len(message.ix) = 2
    /\ Len(guest.ix_accounts) = 5
    /\ guest.ix_accounts[1] = [tx_acc_idx |-> 0, flags |-> 1]
    /\ guest.ix_accounts[5] = [tx_acc_idx |-> 1, flags |-> 2]

\* C11: for every instruction i, in input order, descriptor[i] has
\* program_id_idx = the instruction's program_id_index, cpi_nesting_level = 0,
\* parent_ix_idx = 0xFFFF, ix_data.pointer = the instruction-payload base plus
\* i regions and ix_data.length = the length of the instruction's data.
C11_Descriptors ==
    guest.built =>
        /\ Len(guest.ix_metadata) = Len(message.ix)
        /\ \A i \in 0 .. Len(message.ix) - 1 :
               /\ Get(guest.ix_metadata, i).program_id_idx
                      = Get(message.ix, i).program_id_index
               /\ Get(guest.ix_metadata, i).cpi_nesting_level = 0
               /\ Get(guest.ix_metadata, i).parent_ix_idx = 65535
               /\ Get(guest.ix_metadata, i).ix_data.pointer
                      = [region |-> 256 + i, offset |-> 0]
               /\ Get(guest.ix_metadata, i).ix_data.length
                      = Len(Get(message.ix, i).data)

\* two instructions with different programs and payload lengths
C11_Witness ==
    /\ guest.built
    /\ Len(message.ix) = 2
    /\ Get(guest.ix_metadata, 0).program_id_idx = 1
    /\ Get(guest.ix_metadata, 0).ix_data = GuestSliceReference(Region(256), 0)
    /\ Get(guest.ix_metadata, 1).program_id_idx = 2
    /\ Get(guest.ix_metadata, 1).ix_data = GuestSliceReference(Region(257), 2)

accounts_no == guest.tx_raw_metadata.context.accounts_no

\* every account index the message's instructions name is a loaded account
message_in_range ==
    \A i \in 1 .. Len(message.ix) : \A j \in 1 .. Len(message.ix[i].accounts) :
        message.ix[i].accounts[j] < Len(transaction_accounts)

\* C12 as stated: every tx_acc_idx stored in an instruction-account-ref entry
\* of a built guest transaction is strictly less than accounts_no.
C12_Original ==
    guest.built =>
        \A j \in 1 .. Len(guest.ix_accounts) : guest.ix_accounts[j].tx_acc_idx < accounts_no

\* C12: the builder copies the message's account indexes unchecked, so every
\* stored tx_acc_idx is strictly less than accounts_no exactly when every
\* account index of the message is less than the number of accounts.
C12_RefsInRangeIffMessage ==
    guest.built =>
        ((\A j \in 1 .. Len(guest.ix_accounts) :
              guest.ix_accounts[j].tx_acc_idx < accounts_no)
           <=> message_in_range)

\* a built transaction whose message names only loaded accounts, the last one
\* among them
C12_Witness ==
    /\ guest.built
    /\ message_in_range
    /\ \E j \in 1 .. Len(guest.ix_accounts) :
           guest.ix_accounts[j].tx_acc_idx = accounts_no - 1

\* C13: after a build every step leaves the context buffer, the
\* instruction-descriptor array, the account-ref array, the payload handles
\* and the payload regions as they were, except instruction_idx, which
\* set_instruction_index(n) makes n.
C13_OnlyInstructionIdxChanges ==
    [][guest.built =>
          /\ guest' = [guest EXCEPT !.tx_raw_metadata.context.instruction_idx
                                        = instruction_idx(guest')]
          /\ ret'.op = "set_instruction_index"
                 => instruction_idx(guest') = ret'.index
          /\ ret'.op # "set_instruction_index"
                 => instruction_idx(guest') = instruction_idx(guest)]_vars

\* the index moved to the second instruction and then regions were prepared
C13_Witness ==
    /\ guest.built
    /\ ret.op = "prepare_regions"
    /\ instruction_idx(guest) = 1
    /\ guest.tx_raw_metadata.context.instruction_num = 2

\* C20: immediately after the build the context has an all-zero return-data
\* pubkey, return-data slice (return-data base, 0), cpi_scratchpad
\* (instruction-payload base plus one region per instruction, 0),
\* instruction_idx 0, instruction_num the number of instructions and
\* accounts_no the number of transaction accounts.
C20_ContextAfterBuild ==
    ret.op = "new" =>
        LET context == guest.tx_raw_metadata.context IN
        /\ context.return_data_scratchpad.pubkey = 0
        /\ context.return_data_scratchpad.slice
               = [pointer |-> [region |-> 4, offset |-> 0], length |-> 0]
        /\ context.cpi_scratchpad
               = [pointer |-> [region |-> 256 + Len(message.ix), offset |-> 0],
                  length |-> 0]
        /\ context.instruction_idx = 0
        /\ context.instruction_num = Len(message.ix)
        /\ context.accounts_no = Len(transaction_accounts)

\* just built from a message of one instruction
C20_Witness ==
    /\ ret.op = "new"
    /\ Len(message.ix) = 1
    /\ guest.tx_raw_metadata.context.instruction_num = 1
    /\ guest.tx_raw_metadata.context.accounts_no = NumAccounts
    /\ guest.tx_raw_metadata.context.cpi_scratchpad.pointer = Region(257)

(***************************************************************************)
(* Claims about the store's running totals, flags and consumption.         *)
(***************************************************************************)
\* the result the claims give can_data_be_resized, on exact integers; the
\* error named for a growth over the cap is the parameter
resize_verdict(delta, old_len, new_len, over_growth) ==
    IF wide_less(MAX_ACCOUNT_DATA_LEN, new_len) THEN "InvalidRealloc"
    ELSE IF wide_less(MAX_ACCOUNT_DATA_GROWTH_PER_TRANSACTION,
                      wide_add(delta, wide_sub(new_len, old_len)))
         THEN over_growth
         ELSE "Ok"

\* C14: can_data_be_resized(old_len, new_len) returns InvalidRealloc if
\* new_len exceeds MAX_ACCOUNT_DATA_LEN, otherwise
\* MaxAccountsDataAllocationsExceeded if resize_delta + (new_len - old_len)
\* exceeds MAX_ACCOUNT_DATA_GROWTH_PER_TRANSACTION, otherwise Ok, and in all
\* three cases resize_delta is unchanged.
C14_CanDataBeResized ==
    [][ret'.op = "can_data_be_resized" =>
          /\ ret'.res = resize_verdict(resize_delta, ret'.old_len, ret'.new_len,
                                       "MaxAccountsDataAllocationsExceeded")
          /\ resize_delta' = resize_delta]_vars

\* two growths by the largest length, and a third refused for the cap
C14_Witness ==
    /\ ret.op = "can_data_be_resized"
    /\ ret.res = "MaxAccountsDataAllocationsExceeded"
    /\ ret.new_len = MAX_ACCOUNT_DATA_LEN
    /\ ret.old_len = Small(0)
    /\ resize_delta = wide_add(MAX_ACCOUNT_DATA_LEN, MAX_ACCOUNT_DATA_LEN)

\* C16 as stated: every update_accounts_resize_delta(old, new) returns Ok and
\* adds new - old to resize_delta, so that resize_delta is the sum over the
\* calls, and no other operation changes resize_delta.
C16_Original ==
    [][IF ret'.op = "update_accounts_resize_delta" /\ delta_calls' # delta_calls
       THEN /\ ret'.res = "Ok"
            /\ resize_delta' = wide_add(resize_delta,
                                        wide_sub(ret'.new_len, ret'.old_len))
       ELSE resize_delta' = resize_delta]_vars

\* C16: every update_accounts_resize_delta(old, new), with lengths up to
\* i64::MAX, returns Ok and adds new - old to resize_delta, except that a sum
\* over i64::MAX leaves i64::MAX and a sum under i64::MIN leaves i64::MIN; no
\* other operation changes resize_delta.
C16_ResizeDeltaSaturatingSum ==
    [][IF ret'.op = "update_accounts_resize_delta" /\ delta_calls' # delta_calls
       THEN LET sum == wide_add(resize_delta, wide_sub(ret'.new_len, ret'.old_len)) IN
            /\ ret'.res = "Ok"
            /\ wide_less(Wide(2, -1), sum) => resize_delta' = Wide(2, -1)
            /\ wide_less(sum, Wide(-2, 0)) => resize_delta' = Wide(-2, 0)
            /\ (~wide_less(Wide(2, -1), sum) /\ ~wide_less(sum, Wide(-2, 0)))
                   => resize_delta' = sum
       ELSE resize_delta' = resize_delta]_vars

\* two growths and the running total is their sum
C16_Witness ==
    /\ ret.op = "update_accounts_resize_delta"
    /\ delta_calls = 2
    /\ ret.old_len = Small(0)
    /\ ret.new_len = wide_add(MAX_ACCOUNT_DATA_LEN, Small(1))
    /\ resize_delta = Small(2 * 10 * 1024 * 1024 + 1)

\* C17: add_lamports_delta(d) adds d to lamports_delta and returns Ok when the
\* signed 128-bit sum is representable; otherwise it returns
\* ArithmeticOverflow and lamports_delta keeps the value it had.
C17_AddLamportsDelta ==
    [][ret'.op = "add_lamports_delta" /\ delta_calls' # delta_calls =>
          LET sum == wide_add(lamports_delta, ret'.balance) IN
          IF ~wide_less(Wide(2, -1), sum) /\ ~wide_less(sum, Wide(-2, 0))
          THEN ret'.res = "Ok" /\ lamports_delta' = sum
          ELSE ret'.res = "ArithmeticOverflow" /\ lamports_delta' = lamports_delta]_vars

\* one more lamport refused at i128::MAX
C17_Witness ==
    /\ ret.op = "add_lamports_delta"
    /\ ret.balance = Small(1)
    /\ ret.res = "ArithmeticOverflow"
    /\ lamports_delta = SIGNED_MAX

\* C18: every touched flag is false at creation, touch(i) with i in range
\* makes flag i true and changes no other flag, and no operation takes a flag
\* back to false.
C18_TouchedSticky ==
    /\ \A i \in Accounts : ~Get(touched_flags, i)
    /\ [][/\ \A i \in Accounts : Get(touched_flags, i) => Get(touched_flags', i)
          /\ (ret'.op = "touch" /\ InRange(touched_flags, ret'.index))
                 => touched_flags' = SetAt(touched_flags, ret'.index, TRUE)
          /\ ret'.op # "touch" => touched_flags' = touched_flags]_vars

\* account 0 touched twice, account 1 never, and leases taken since
C18_Witness ==
    /\ touched_flags = <<TRUE, FALSE>>
    /\ ret.op = "drop_AccountRefMut"
    /\ ret.index = 0
    /\ ret.res = "Ok"

\* C19: into_account_shared_data right after creation, with no write in
\* between, returns one account per input, in input order, whose owner,
\* lamports, data, executable and rent_epoch are the input's.
C19_RoundTrip ==
    (returned_accounts.returned /\ ret.op = "into_account_shared_data") =>
        /\ Len(returned_accounts.accounts) = NumAccounts
        /\ \A k \in 1 .. NumAccounts :
               /\ returned_accounts.accounts[k].assembled
               /\ returned_accounts.accounts[k].owner = LoadedAccount(k - 1).owner
               /\ returned_accounts.accounts[k].lamports = LoadedAccount(k - 1).lamports
               /\ returned_accounts.accounts[k].data = LoadedData(k - 1)
               /\ returned_accounts.accounts[k].executable
                      = LoadedAccount(k - 1).executable
               /\ returned_accounts.accounts[k].rent_epoch
                      = LoadedAccount(k - 1).rent_epoch

\* C21: for every transaction account k, in input order, account descriptor k
\* has the pubkey, owner and lamports of the loaded account, data.pointer =
\* the accounts base plus k regions and data.length = the length of the
\* payload of k.
C21_AccountDescriptors ==
    guest.built =>
        /\ Len(guest.tx_raw_metadata.accounts) = Len(transaction_accounts)
        /\ \A k \in 0 .. Len(transaction_accounts) - 1 :
               LET descriptor == Get(guest.tx_raw_metadata.accounts, k)
                   loaded == Get(transaction_accounts, k)
               IN  /\ descriptor.pubkey = loaded.key
                   /\ descriptor.owner = loaded.owner
                   /\ descriptor.lamports = loaded.lamports
                   /\ descriptor.data.pointer
                          = [region |-> mm_accounts_area.region + k,
                             offset |-> mm_accounts_area.offset]
                   /\ descriptor.data.length = Len(heap[loaded.data].data)

\* the second account, one byte long, described one region above the base
C21_Witness ==
    /\ guest.built
    /\ Get(guest.tx_raw_metadata.accounts, 1).pubkey = 11
    /\ Get(guest.tx_raw_metadata.accounts, 1).lamports = 1
    /\ Get(guest.tx_raw_metadata.accounts, 1).data
           = GuestSliceReference(u64_add(mm_accounts_area, Region(1)), 1)

\* C22: the build makes one read-only payload region per instruction, the
\* i-th at the instruction-payload base plus i regions over the data of
\* instruction i, the address descriptor[i].ix_data.pointer holds; and every
\* list prepare_regions returns ends with all of them, in instruction order,
\* whatever the instruction index.
C22_PayloadRegions ==
    guest.built =>
        /\ Len(guest.payloads) = Len(message.ix)
        /\ \A i \in 0 .. Len(message.ix) - 1 :
               /\ ~Get(guest.payloads, i).writable
               /\ Get(guest.payloads, i).vm_addr = [region |-> 256 + i, offset |-> 0]
               /\ Get(guest.payloads, i).vm_addr = Get(guest.ix_metadata, i).ix_data.pointer
               /\ Get(guest.payloads, i).host
                      = [buf |-> "instruction_data", idx |-> i,
                         len |-> Len(Get(message.ix, i).data)]
        /\ Returned_regions =>
               /\ Len(regions.regions) >= Len(guest.payloads)
               /\ SubSeq(regions.regions,
                         Len(regions.regions) - Len(guest.payloads) + 1,
                         Len(regions.regions)) = guest.payloads

\* regions returned at the second instruction of two, both payloads last
C22_Witness ==
    /\ Returned_regions
    /\ ret.index = 1
    /\ Len(guest.payloads) = 2
    /\ regions.regions[Len(regions.regions)].vm_addr = Region(257)
    /\ regions.regions[Len(regions.regions) - 1].vm_addr = Region(256)

\* C23: new_with_feature_set returns None when enable_abi_v2_programs is
\* false, and when it is true the guest transaction new() builds from the
\* same accounts and message.
C23_FeatureGate ==
    ret.op = "new_with_feature_set" =>
        IF ret.enable_abi_v2_programs
        THEN /\ ret.res = "Some"
             /\ guest = RuntimeGuestTransaction_new(transaction_accounts, message,
                                                    LoadedHeap(NumAccounts))
        ELSE ret.res = "None" /\ ~guest.built

\* the gate closed: nothing built
C23_Witness ==
    /\ ret.op = "new_with_feature_set"
    /\ ~ret.enable_abi_v2_programs
    /\ ret.res = "None"
    /\ guest = NotBuilt

\* the counter value the outstanding leases of account k stand for
tracked(ls, k) == IF Get(ls, k).refmut > 0 THEN -Get(ls, k).refmut ELSE Get(ls, k).ref

\* C24: in every reachable state each borrow counter lies in -1 .. 127 and
\* tracks the leases exactly: n > 0 iff exactly n immutable leases are
\* outstanding, -1 iff exactly one mutable lease is, 0 iff none is; no value
\* of -2 or below is produced.
C24_CounterTracksLeases ==
    \A k \in Accounts :
        /\ Get(borrow_counters, k) \in -1 .. 127
        /\ Get(borrow_counters, k) > 0
               <=> (Readers(k) = Get(borrow_counters, k) /\ Readers(k) > 0 /\ Writers(k) = 0)
        /\ Get(borrow_counters, k) = -1 <=> (Writers(k) = 1 /\ Readers(k) = 0)
        /\ Get(borrow_counters, k) = 0 <=> (Writers(k) = 0 /\ Readers(k) = 0)

\* 127 immutable leases outstanding and the 128th refused
C24_Witness ==
    /\ Get(borrow_counters, 0) = 127
    /\ Readers(0) = 127
    /\ ret = Returned("try_borrow", 0, "AccountBorrowFailed")

\* C26: a try_borrow or try_borrow_mut that returns AccountBorrowFailed
\* leaves every borrow counter as it was and creates no lease; the leases
\* held before it stay the ones the counters stand for, and each drop of one
\* moves its counter by one.
C26_FailedBorrowChangesNothing ==
    [][/\ ret'.res = "AccountBorrowFailed"
              => borrow_counters' = borrow_counters /\ leases' = leases
       /\ \A k \in Accounts : Get(borrow_counters', k) = tracked(leases', k)
       /\ ret'.op = "drop_AccountRef"
              => Get(borrow_counters', ret'.index) = Get(borrow_counters, ret'.index) - 1
       /\ ret'.op = "drop_AccountRefMut"
              => Get(borrow_counters', ret'.index) = Get(borrow_counters, ret'.index) + 1]_vars

\* a writer refused while two readers hold the account
C26_Witness ==
    /\ ret = Returned("try_borrow_mut", 1, "AccountBorrowFailed")
    /\ Readers(1) = 2
    /\ Get(borrow_counters, 1) = 2

lease_ops == {"try_borrow", "try_borrow_mut", "drop_AccountRef", "drop_AccountRefMut"}

\* C27: acquiring or releasing a lease on account i changes neither the
\* borrow counter nor the leases of any other account j, and try_borrow_mut(j)
\* and try_borrow(j) succeed or fail by the leases of j alone.
C27_AccountsIndependent ==
    [][(ret'.op \in lease_ops /\ InRange(borrow_counters, ret'.index)) =>
          /\ \A j \in Accounts \ {ret'.index} :
                 /\ Get(borrow_counters', j) = Get(borrow_counters, j)
                 /\ Get(leases', j) = Get(leases, j)
          /\ ret'.op = "try_borrow_mut"
                 => (ret'.res = "Ok"
                        <=> (Readers(ret'.index) = 0 /\ Writers(ret'.index) = 0))
          /\ ret'.op = "try_borrow"
                 => (ret'.res = "Ok"
                        <=> (Writers(ret'.index) = 0 /\ Readers(ret'.index) < 127))]_vars

\* account 1 taken for writing while account 0 is held by a writer
C27_Witness ==
    /\ ret = Returned("try_borrow_mut", 1, "Ok")
    /\ Writers(0) = 1
    /\ Get(borrow_counters, 0) = -1
    /\ Get(borrow_counters, 1) = -1

\* C25: data_as_mut_slice on a mutable lease moves the account to a fresh
\* buffer of its own, holding the bytes the payload had, if and only if the
\* payload handle was shared when it was called; so a write to an account
\* through a mutable lease leaves the bytes behind every handle the guest
\* layout holds as they were.
C25_CopyOnWriteIffShared ==
    [][ret'.op = "data_as_mut_slice" =>
          LET x == Get(private_account_fields, ret'.index).payload
              y == Get(private_account_fields', ret'.index).payload
          IN  /\ heap[x].strong > 1 <=> y # x
              /\ y # x => /\ y \notin DOMAIN heap
                          /\ heap'[y].strong = 1
                          /\ Len(heap'[y].data) = Len(heap[x].data)
                          /\ heap'[x].data = heap[x].data
              /\ \A k \in 0 .. Len(guest.account_data) - 1 :
                     heap'[Get(guest.account_data, k)].data
                         = heap[Get(guest.account_data, k)].data]_vars

\* account 1 written through its own copy; the guest layout's buffer is as loaded
C25_Witness ==
    /\ ret.op = "data_as_mut_slice"
    /\ ret.index = 1
    /\ Get(private_account_fields, 1).payload # Get(guest.account_data, 1)
    /\ heap[Get(private_account_fields, 1).payload] = [data |-> <<255>>, strong |-> 1]
    /\ heap[Get(guest.account_data, 1)].data = LoadedData(1)

\* C28: whenever instruction_idx is a valid instruction index and every
\* tx_acc_idx the instruction refers to is less than accounts_no,
\* prepare_regions completes and returns a region list: no index out of
\* range, no underflow in locating the instruction's account refs.
C28_PrepareRegionsCompletes ==
    (/\ ret.op = "prepare_regions"
     /\ ret.index < Len(message.ix)
     /\ \A j \in 1 .. Len(current_instruction.accounts) :
            current_instruction.accounts[j] < accounts_no)
        => ret.res = "Ok" /\ ~regions.panic

\* C29: no two regions of a list prepare_regions returns have the same guest
\* base address, for any transaction with at least one instruction.
C29_DistinctRegionBases ==
    (Returned_regions /\ Len(message.ix) >= 1) =>
        \A r1 \in 1 .. Len(regions.regions), r2 \in 1 .. Len(regions.regions) :
            r1 # r2 => regions.regions[r1].vm_addr # regions.regions[r2].vm_addr

\* C30: when every update_accounts_resize_delta(old, new) comes right after a
\* can_data_be_resized(old, new) that returned Ok, resize_delta is at most
\* MAX_ACCOUNT_DATA_GROWTH_PER_TRANSACTION in every reachable state.
C30_GuardedGrowthCapped ==
    ~wide_less(MAX_ACCOUNT_DATA_GROWTH_PER_TRANSACTION, resize_delta)

\* the total at the cap after two admitted growths, and a third refused
C30_Witness ==
    /\ resize_delta = MAX_ACCOUNT_DATA_GROWTH_PER_TRANSACTION
    /\ delta_calls = 2
    /\ ret = ReturnedLens("can_data_be_resized", Small(0), MAX_ACCOUNT_DATA_LEN,
                          "MaxAccountsDataAllocationsExceeded")

(***************************************************************************)
(* WritableAccount for TransactionAccountMutView: the writes a mutable     *)
(* lease allows.  An AccountRefMut derefs to the view built by             *)
(* try_borrow_mut from shared_account_metadata[index] and                  *)
(* private_account_fields[index]; each action below is one method called   *)
(* through a lease that is held.                                           *)
(***************************************************************************)
PUBKEY_BYTES == 32

\* a byte slice holding the leading length bytes of a pubkey's 32; what a
\* caller writes are the field values of the first loaded account
SliceInputs ==
    [length : {PUBKEY_BYTES - 1, PUBKEY_BYTES}, pubkey : {LoadedAccount(0).owner}]

set_owner_fields_key(svm_account, owner) ==
    [svm_account EXCEPT !.key = owner]

set_owner_fields(svm_account, owner) ==
    [svm_account EXCEPT !.owner = owner]

held_mut(index) == InRange(leases, index) /\ Get(leases, index).refmut > 0

set_lamports(index, lamports) ==
    /\ held_mut(index)
    /\ shared_account_metadata' =
           [shared_account_metadata EXCEPT ![index + 1].lamports = lamports]
    /\ ret' = Returned("set_lamports", index, "Ok")
    /\ UNCHANGED << private_account_fields, borrow_counters, touched_flags,
                    leases, heap >>
    /\ UNCHANGED guestVars
    /\ UNCHANGED deltaVars

set_owner(index, owner) ==
    /\ held_mut(index)
    /\ shared_account_metadata' =
           SetAt(shared_account_metadata, index,
                 set_owner_fields(Get(shared_account_metadata, index), owner))
    /\ ret' = Returned("set_owner", index, "Ok")
    /\ UNCHANGED << private_account_fields, borrow_counters, touched_flags,
                    leases, heap >>
    /\ UNCHANGED guestVars
    /\ UNCHANGED deltaVars

copy_into_owner_from_slice(index, source) ==
    /\ held_mut(index)
    /\ IF source.length # PUBKEY_BYTES  \* copy_from_slice panics
       THEN /\ ret' = Returned("copy_into_owner_from_slice", index, "panic")
            /\ UNCHANGED shared_account_metadata
       ELSE /\ ret' = Returned("copy_into_owner_from_slice", index, "Ok")
            /\ shared_account_metadata' =
                   SetAt(shared_account_metadata, index,
                         set_owner_fields(Get(shared_account_metadata, index),
                                          source.pubkey))
    /\ UNCHANGED << private_account_fields, borrow_counters, touched_flags,
                    leases, heap >>
    /\ UNCHANGED guestVars
    /\ UNCHANGED deltaVars

set_executable(index, executable) ==
    /\ held_mut(index)
    /\ private_account_fields' =
           [private_account_fields EXCEPT ![index + 1].executable = executable]
    /\ ret' = Returned("set_executable", index, "Ok")
    /\ UNCHANGED << shared_account_metadata, borrow_counters, touched_flags,
                    leases, heap >>
    /\ UNCHANGED guestVars
    /\ UNCHANGED deltaVars

set_rent_epoch(index, epoch) ==
    /\ held_mut(index)
    /\ private_account_fields' =
           [private_account_fields EXCEPT ![index + 1].rent_epoch = epoch]
    /\ ret' = Returned("set_rent_epoch", index, "Ok")
    /\ UNCHANGED << shared_account_metadata, borrow_counters, touched_flags,
                    leases, heap >>
    /\ UNCHANGED guestVars
    /\ UNCHANGED deltaVars

\* account_key: the key at index, None past the end
account_key_result(index) ==
    IF InRange(shared_account_metadata, index)
    THEN Some(Get(shared_account_metadata, index).key)
    ELSE Nothing

\* account_keys_iter, collected
account_keys_iter_result ==
    [k \in 1 .. Len(shared_account_metadata) |-> shared_account_metadata[k].key]

account_key(index) ==
    /\ ret' = [ op |-> "account_key", index |-> index,
                res |-> IF account_key_result(index).some THEN "Some" ELSE "None",
                key |-> account_key_result(index) ]
    /\ UNCHANGED storeVars
    /\ UNCHANGED guestVars
    /\ UNCHANGED deltaVars

account_keys_iter ==
    /\ ret' = [ op |-> "account_keys_iter", index |-> 0, res |-> "Ok",
                keys |-> account_keys_iter_result ]
    /\ UNCHANGED storeVars
    /\ UNCHANGED guestVars
    /\ UNCHANGED deltaVars

\* the caller holds one lease at a time, a reader or a writer, and uses
\* every method of the write lease and the two key readers
OneLease(index) ==
    \A k \in 1 .. Len(leases) : leases[k].ref + leases[k].refmut < 1

NextFields ==
    \/ \E index \in IndexInputs :
           \/ OneLease(index) /\ try_borrow(index)
           \/ OneLease(index) /\ try_borrow_mut(index)
           \/ drop_AccountRef(index)
           \/ drop_AccountRefMut(index)
           \/ account_key(index)
    \/ \E index \in Accounts :
           \/ \E lamports \in {LoadedAccount(0).lamports} : set_lamports(index, lamports)
           \/ \E owner \in {LoadedAccount(0).owner} : set_owner(index, owner)
           \/ \E source \in SliceInputs : copy_into_owner_from_slice(index, source)
           \/ \E executable \in {TRUE} : set_executable(index, executable)
           \/ \E epoch \in {LoadedAccount(0).rent_epoch} : set_rent_epoch(index, epoch)
           \/ data_as_mut_slice(index, 0, 0)
    \/ account_keys_iter

SpecFields == Init /\ [][NextFields]_vars

\* the keys the store was created with, in order
created_keys == [k \in 1 .. NumAccounts |-> LoadedAccount(k - 1).key]

\* C31: every account's key is the one the store was created with, in every
\* state and whatever the leases held and the writes made through them:
\* account_key(i) is that key for each account (None past the end) and
\* account_keys_iter yields the created keys in order, also in what the two
\* calls last returned.
C31_KeysFixed ==
    /\ account_keys_iter_result = created_keys
    /\ \A i \in IndexInputs :
           account_key_result(i) =
               IF i < NumAccounts THEN Some(created_keys[i + 1]) ELSE Nothing
    /\ ret.op = "account_key" =>
           ret.key = IF ret.index < NumAccounts
                     THEN Some(created_keys[ret.index + 1]) ELSE Nothing
    /\ ret.op = "account_keys_iter" => ret.keys = created_keys

\* account 1 rewritten through a mutable lease still held (owner, lamports,
\* executable, rent epoch and data), and its key read meanwhile
C31_Witness ==
    /\ Writers(1) > 0
    /\ Get(shared_account_metadata, 1).owner = LoadedAccount(0).owner
    /\ Get(shared_account_metadata, 1).lamports = LoadedAccount(0).lamports
    /\ Get(private_account_fields, 1).executable
    /\ Get(private_account_fields, 1).rent_epoch = LoadedAccount(0).rent_epoch
    /\ store_data(1) = << 0 >>
    /\ ret.op = "account_key" /\ ret.index = 1
    /\ ret.key = Some(LoadedAccount(1).key)

(***************************************************************************)
(* The guest-address computations at their 64-bit width.  An address is    *)
(* region * 2^32 + offset as before, with region and offset each a wide    *)
(* integer hi * 2^30 + lo so that 2^32 is Wide(4, 0); a u64 has both below *)
(* 2^32.  A saturating operation yields u64::MAX past the width; a plain   *)
(* `+` or `*` panics when the build has overflow checks and wraps when it  *)
(* does not.                                                               *)
(***************************************************************************)
\* 2^32: MM_REGION_SIZE in bytes and the number of regions below 2^64
TWO_32 == Wide(4, 0)

u64_MAX == [region |-> Wide(4, -1), offset |-> Wide(4, -1)]

\* an address of the builder's range at the full width
u64_wide(a) == [region |-> Small(a.region), offset |-> Small(a.offset)]

\* the sum and the product as integers, the offset carried into the region
exact_add(a, b) ==
    LET region == wide_add(a.region, b.region)
        offset == wide_add(a.offset, b.offset)
    IN  IF wide_less(offset, TWO_32)
        THEN [region |-> region, offset |-> offset]
        ELSE [region |-> wide_add(region, Small(1)),
              offset |-> wide_sub(offset, TWO_32)]

\* MM_REGION_SIZE * n
exact_region_mul(n) == [region |-> n, offset |-> Small(0)]

overflows(x) == ~wide_less(x.region, TWO_32)

saturating(x) == IF overflows(x) THEN u64_MAX ELSE x

RECURSIVE wrapping(_)
wrapping(x) ==
    IF overflows(x)
    THEN wrapping([x EXCEPT !.region = wide_sub(@, TWO_32)])
    ELSE x

Pointer(x) == [panic |-> FALSE, pointer |-> x]

\* a.saturating_add(b)
wide_saturating_add(a, b) == saturating(exact_add(a, b))

\* base + MM_REGION_SIZE * n with the plain operators
plain_region_add(base, n, overflow_checks) ==
    LET x == exact_add(base, exact_region_mul(n)) IN
    IF ~overflows(x) THEN Pointer(x)
    ELSE IF overflow_checks THEN [panic |-> TRUE, pointer |-> u64_MAX]
    ELSE Pointer(wrapping(x))

\* IX_PAYLOAD_REGION.saturating_add((ix_idx as u64).saturating_mul(MM_REGION_SIZE))
ix_data_pointer_result(ix_idx) ==
    Pointer(wide_saturating_add(u64_wide(IX_PAYLOAD_REGION),
                                saturating(exact_region_mul(ix_idx))))

\* accounts_addr.saturating_add(len.saturating_mul(size_of) as u64)
accounts_addr_result(accounts_addr, length) ==
    Pointer(wide_saturating_add(
                accounts_addr,
                u64_wide(Bytes(length * SIZE_OF_GuestInstructionAccount))))

\* MM_ACCOUNTS_AREA.saturating_add(MM_REGION_SIZE.saturating_mul(idx as u64))
account_data_pointer_result(idx) ==
    Pointer(wide_saturating_add(u64_wide(MM_ACCOUNTS_AREA),
                                saturating(exact_region_mul(idx))))

\* MM_TX_INSTRUCTION_DATA_AREA + MM_REGION_SIZE * message.num_instructions() as u64
cpi_scratchpad_pointer_result(count, overflow_checks) ==
    plain_region_add(u64_wide(MM_TX_INSTRUCTION_DATA_AREA), count, overflow_checks)

\* MM_TX_INSTRUCTION_DATA_AREA + MM_REGION_SIZE * idx as u64
payload_base_result(idx, overflow_checks) ==
    plain_region_add(u64_wide(MM_TX_INSTRUCTION_DATA_AREA), idx, overflow_checks)

\* MM_ACCOUNTS_AREA + MM_REGION_SIZE * ix_account_metadata.tx_acc_idx as u64
account_region_base_result(tx_acc_idx, overflow_checks) ==
    plain_region_add(u64_wide(MM_ACCOUNTS_AREA), Small(tx_acc_idx), overflow_checks)

\* counts and indexes of the usize range: small ones, the ones around
\* 2^32 - 256 where IX_PAYLOAD_REGION + MM_REGION_SIZE * n reaches 2^64, and
\* the ones from 2^32 on where MM_REGION_SIZE * n does
CountInputs ==
    { Small(0), Small(1), Small(2), Wide(4, -257), Wide(4, -256), Wide(4, -255),
      Wide(4, -8), Wide(4, -1), Wide(4, 0), Wide(4, 1), Wide(8, 0) }

\* values of the running pointer: its start, the last address at which three
\* more entries fit, the ones past it, and the saturated one
RunningInputs ==
    { u64_wide(IX_ACCOUNTS_REGION),
      [region |-> Wide(4, -1), offset |-> Wide(4, -13)],
      [region |-> Wide(4, -1), offset |-> Wide(4, -12)],
      [region |-> Wide(4, -1), offset |-> Wide(4, -4)],
      u64_MAX }

Computed(op, input, length, r) ==
    [ op |-> op, index |-> 0, res |-> IF r.panic THEN "panic" ELSE "Ok",
      input |-> input, length |-> length, pointer |-> r.pointer ]

ix_data_pointer(ix_idx) ==
    /\ ret' = Computed("ix_data.pointer", ix_idx, 0,
                       ix_data_pointer_result(ix_idx))
    /\ UNCHANGED storeVars
    /\ UNCHANGED guestVars
    /\ UNCHANGED deltaVars

accounts_addr(pointer, length) ==
    /\ ret' = Computed("accounts_addr", pointer, length,
                       accounts_addr_result(pointer, length))
    /\ UNCHANGED storeVars
    /\ UNCHANGED guestVars
    /\ UNCHANGED deltaVars

account_data_pointer(idx) ==
    /\ ret' = Computed("data.pointer", idx, 0,
                       account_data_pointer_result(idx))
    /\ UNCHANGED storeVars
    /\ UNCHANGED guestVars
    /\ UNCHANGED deltaVars

cpi_scratchpad_pointer(count, overflow_checks) ==
    /\ ret' = Computed("cpi_scratchpad.pointer", count, 0,
                       cpi_scratchpad_pointer_result(count, overflow_checks))
    /\ UNCHANGED storeVars
    /\ UNCHANGED guestVars
    /\ UNCHANGED deltaVars

payload_base(idx, overflow_checks) ==
    /\ ret' = Computed("payload base", idx, 0,
                       payload_base_result(idx, overflow_checks))
    /\ UNCHANGED storeVars
    /\ UNCHANGED guestVars
    /\ UNCHANGED deltaVars

account_region_base(tx_acc_idx, overflow_checks) ==
    /\ ret' = Computed("account region base", Small(tx_acc_idx), 0,
                       account_region_base_result(tx_acc_idx, overflow_checks))
    /\ UNCHANGED storeVars
    /\ UNCHANGED guestVars
    /\ UNCHANGED deltaVars

NextPointers ==
    \/ \E count \in CountInputs :
           \/ ix_data_pointer(count)
           \/ account_data_pointer(count)
           \/ \E overflow_checks \in BOOLEAN :
                  \/ cpi_scratchpad_pointer(count, overflow_checks)
                  \/ payload_base(count, overflow_checks)
    \/ \E pointer \in RunningInputs, length \in {0, 1, 3} :
           accounts_addr(pointer, length)
    \/ \E tx_acc_idx \in {0, 1, U16_MAX}, overflow_checks \in BOOLEAN :
           account_region_base(tx_acc_idx, overflow_checks)

SpecPointers == Init /\ [][NextPointers]_vars

\* the base a computation starts from
pointer_base(r) ==
    IF r.op = "ix_data.pointer" THEN u64_wide(IX_PAYLOAD_REGION)
    ELSE IF r.op \in {"cpi_scratchpad.pointer", "payload base"}
         THEN u64_wide(MM_TX_INSTRUCTION_DATA_AREA)
    ELSE u64_wide(MM_ACCOUNTS_AREA)

\* the address a computation stands for, as an integer
pointer_exact(r) ==
    IF r.op = "accounts_addr"
    THEN exact_add(r.input, u64_wide(Bytes(r.length * SIZE_OF_GuestInstructionAccount)))
    ELSE exact_add(pointer_base(r), exact_region_mul(r.input))

PointerOps ==
    { "ix_data.pointer", "accounts_addr", "data.pointer", "cpi_scratchpad.pointer",
      "payload base", "account region base" }

\* C32: every guest-address computation (ix_data.pointer, the running
\* ix_accounts pointer, account data.pointer, cpi_scratchpad.pointer, the
\* payload-region bases and the account-region bases) completes and yields
\* the exact address when it is below 2^64 and u64::MAX when it is not.
C32_AddressesSaturate ==
    ret.op \in PointerOps =>
        /\ ret.res = "Ok"
        /\ ret.pointer = saturating(pointer_exact(ret))

====
